---------------------------- MODULE Spec2Model ----------------------------
(***************************************************************************)
(* The assignment engine of the Golf-Scheduler application:                *)
(* Employee, create_schedule (src/main.py:28-103) and the working copy the *)
(* Generate handler makes of the roster (src/main.py:411-417).             *)
(*                                                                         *)
(* A run of create_schedule is modelled step by step: the call (calendar   *)
(* expansion and the mandatory pre-pass), one action per iteration of the  *)
(* day/shift loop, and the return.  Runs follow one another, each on its   *)
(* own fresh copy of the same roster.                                      *)
(*                                                                         *)
(* Employees are identified inside a run by their position in the roster   *)
(* (Python object identity); unavailable_dates and mandatory_dates, lists  *)
(* the code only tests membership of, are sets of <<date, shift>> pairs.   *)
(* Shift lists hold distinct names, as the engine's interface requires.    *)
(***************************************************************************)
EXTENDS Integers, Sequences, FiniteSets, TLC

(* ------------------------------ bounds -------------------------------- *)

\* largest roster
NumEmployees == 3
\* largest people_per_shift
MaxPeople == 2
\* largest number of constraint entries of a roster
MaxConstraints == 2

(* ----------------------------- constants ------------------------------ *)

\* a row of calendar.monthcalendar holds seven days
WeekLen == 7

NoAvailable == "No Available Employee"

AllNames == <<"Ann", "Bob", "Cal", "Dee", "Eve">>

\* two calls of create_schedule over the same inputs, one after the other
Runs == {1, 2}

\* the (year, month) pairs scheduled, and the shift names in use
Periods == {<<2025, 3>>, <<2026, 2>>}
ShiftNames == {"Morning", "Evening", "Night"}

(* ------------------------------ helpers ------------------------------- *)

Min(a, b) == IF a <= b THEN a ELSE b
Max(a, b) == IF a >= b THEN a ELSE b

Range(s) == {s[k] : k \in DOMAIN s}

\* the whole list, whatever n
PySliceAll(s, n) == s

\* Python's s[:n], n of either sign
PySliceTo(s, n) ==
  IF n >= 0 THEN SubSeq(s, 1, Min(n, Len(s)))
            ELSE SubSeq(s, 1, Max(Len(s) + n, 0))

\* Python's s[k]: defined for -len(s) <= k < len(s), IndexError otherwise
PyIndexOK(s, k) == k >= 0 - Len(s) /\ k < Len(s)
PyIndex(s, k) == IF k >= 0 THEN s[k + 1] ELSE s[Len(s) + k + 1]

\* the subsets of S with at most k elements
RECURSIVE SubsetsUpTo(_, _)
SubsetsUpTo(S, k) ==
  IF k = 0 THEN {{}}
  ELSE LET prev == SubsetsUpTo(S, k - 1)
       IN  prev \cup {p \cup {x} : p \in prev, x \in S}

(* ------------------------------ calendar ------------------------------ *)

\* calendar.monthrange(year, month): <<weekday of day 1 (0 = Monday), days>>
monthrange(year, month) ==
  CASE <<year, month>> = <<2025, 3>> -> <<5, 31>>
    [] <<year, month>> = <<2026, 2>> -> <<6, 28>>

\* calendar.monthcalendar(year, month): rows of seven days, 0 outside the month
monthcalendar(year, month) ==
  LET first == monthrange(year, month)[1]
      ndays == monthrange(year, month)[2]
      nrows == (first + ndays + WeekLen - 1) \div WeekLen
  IN  [r \in 1..nrows |->
        [c \in 1..WeekLen |->
          LET d == (r - 1) * WeekLen + c - first
          IN  IF d >= 1 /\ d <= ndays THEN d ELSE 0]]

\* datetime.date(year, month, day)
date(year, month, day) == [year |-> year, month |-> month, day |-> day]

(* ------------------------------ Employee ------------------------------ *)

\* Employee.__init__
Employee(name) ==
  [name |-> name, unavailable_dates |-> {}, mandatory_dates |-> {},
   assigned_shifts |-> <<>>]

\* no unavailability is ever looked up
is_available_always(e, date_obj, shift) == TRUE

is_available(e, date_obj, shift) ==
  IF <<date_obj, shift>> \in e.unavailable_dates THEN FALSE ELSE TRUE

\* a mandatory entry that yields to an unavailability entry for the same slot
must_work_unless_unavailable(e, date_obj, shift) ==
  /\ <<date_obj, shift>> \in e.mandatory_dates
  /\ <<date_obj, shift>> \notin e.unavailable_dates

\* the lookup that compares the day of the month and the shift, whatever
\* the month and the year of the entry
must_work_day_of_month(e, date_obj, shift) ==
  \E x \in e.mandatory_dates : x[1].day = date_obj.day /\ x[2] = shift

must_work(e, date_obj, shift) == <<date_obj, shift>> \in e.mandatory_dates


(* --------------------------- create_schedule -------------------------- *)

\* the roster as the list of its employees (positions), in roster order
Roster(emps) == [k \in 1..Len(emps) |-> k]

\* a key that tells no two employees apart
ZeroCount(emps, e) == 0

\* key=lambda e: len(e.assigned_shifts)
ShiftCount(emps, e) == Len(emps[e].assigned_shifts)

\* e placed in front of the elements of the sorted list with an equal key
RECURSIVE InsertBeforeTies(_, _, _)
InsertBeforeTies(sorted, e, emps) ==
  IF sorted = <<>> THEN <<e>>
  ELSE IF ShiftCount(emps, Head(sorted)) < ShiftCount(emps, e)
       THEN <<Head(sorted)>> \o InsertBeforeTies(Tail(sorted), e, emps)
       ELSE <<e>> \o sorted

\* e placed behind every element of the sorted list whose key is <= e's key
RECURSIVE InsertByCount(_, _, _)
InsertByCount(sorted, e, emps) ==
  IF sorted = <<>> THEN <<e>>
  ELSE IF ShiftCount(emps, Head(sorted)) <= ShiftCount(emps, e)
       THEN <<Head(sorted)>> \o InsertByCount(Tail(sorted), e, emps)
       ELSE <<e>> \o sorted

\* the list in ascending key order, equal keys in their original order
RECURSIVE StableSort(_, _)
StableSort(list, emps) ==
  IF list = <<>> THEN <<>>
  ELSE InsertByCount(StableSort(SubSeq(list, 1, Len(list) - 1), emps),
                     list[Len(list)], emps)

\* every arrangement of the list in ascending key order
KeyOrderedArrangements(list, emps) ==
  LET n == Len(list)
      perms == {p \in [1..n -> 1..n] : \A a, b \in 1..n : a # b => p[a] # p[b]}
  IN  {[k \in 1..n |-> list[p[k]]] : p \in
         {q \in perms : \A a, b \in 1..n :
            a < b => ShiftCount(emps, list[q[a]]) <= ShiftCount(emps, list[q[b]])}}

\* the list left in the order it has
Unsorted(list, emps) == {list}

\* the results list.sort(key=...) can produce: Python's sort is stable
SortOutcomes(list, emps) == {StableSort(list, emps)}

\* week=None is the empty tuple, week=k the tuple <<k>>
None == <<>>

\* month_cal[week] raises no IndexError
WeekExists(year, month, week) ==
  week = None \/ PyIndexOK(monthcalendar(year, month), week[1])

\* every day of the month, whatever the week
WholeMonthDays(year, month, week) == [k \in 1..monthrange(year, month)[2] |-> k]

\* days_to_schedule
DaysToSchedule(year, month, week) ==
  IF week # None
  THEN SelectSeq(PyIndex(monthcalendar(year, month), week[1]), LAMBDA day : day # 0)
  ELSE [k \in 1..monthrange(year, month)[2] |-> k]

\* the pre-pass skipping the employees unavailable for the slot
MustWorkListIfAvailable(emps, current_date, shift) ==
  SelectSeq([k \in 1..Len(emps) |-> k],
            LAMBDA e : /\ <<current_date, shift>> \in emps[e].mandatory_dates
                       /\ <<current_date, shift>> \notin emps[e].unavailable_dates)

\* the employees the pre-pass appends for one (day, shift) iteration
MustWorkList(emps, current_date, shift) ==
  SelectSeq(Roster(emps), LAMBDA e : must_work(emps[e], current_date, shift))

\* the list the pre-pass builds under key (day_num, shift): one batch per
\* occurrence of the shift in shifts_per_day[1..upto]
RECURSIVE MandatoryList(_, _, _, _, _)
MandatoryList(emps, current_date, shift, shifts, upto) ==
  IF upto = 0 THEN <<>>
  ELSE MandatoryList(emps, current_date, shift, shifts, upto - 1)
       \o (IF shifts[upto] = shift
           THEN MustWorkList(emps, current_date, shift) ELSE <<>>)

\* mandatory_assignments after the pre-pass: keys exist where something was appended
MandatoryAssignments(emps, days, shifts, year, month) ==
  LET list(k) == MandatoryList(emps, date(year, month, k[1]), k[2], shifts, Len(shifts))
      keys == {k \in Range(days) \X Range(shifts) : list(k) # <<>>}
  IN  [k \in keys |-> list(k)]

\* mandatory_assignments.get(key, [])
GetMandatory(ma, key) == IF key \in DOMAIN ma THEN ma[key] ELSE <<>>

\* the candidates without the test against the employees already selected
AvailableEmployeesWithSelected(emps, selected, day_num, current_date, shift) ==
  SelectSeq([k \in 1..Len(emps) |-> k],
            LAMBDA e : /\ <<current_date, shift>> \notin emps[e].unavailable_dates
                       /\ day_num \notin {s[1] : s \in Range(emps[e].assigned_shifts)})

\* the candidates without the test against the shifts already worked that day
AvailableEmployeesAnyDay(emps, selected, day_num, current_date, shift) ==
  SelectSeq([k \in 1..Len(emps) |-> k],
            LAMBDA e : /\ <<current_date, shift>> \notin emps[e].unavailable_dates
                       /\ e \notin Range(selected))

\* the candidates of the fill path
AvailableEmployees(emps, selected, day_num, current_date, shift) ==
  SelectSeq(Roster(emps),
            LAMBDA e : /\ is_available(emps[e], current_date, shift)
                       /\ day_num \notin {s[1] : s \in Range(emps[e].assigned_shifts)}
                       /\ e \notin Range(selected))

\* the outcomes of choosing selected_employees for one slot:
\* the selection with the same-day test applied to the mandatory list too
SlotOutcomesGuarded(emps, mandatory_emps, day_num, current_date, shift, people_per_shift) ==
  LET free == SelectSeq(mandatory_emps,
                        LAMBDA e : day_num \notin {s[1] : s \in Range(emps[e].assigned_shifts)})
  IN  IF Len(free) >= people_per_shift
      THEN {[mandatory_emps |-> srt, selected |-> PySliceTo(srt, people_per_shift)] :
              srt \in SortOutcomes(free, emps)}
      ELSE LET remaining_spots == people_per_shift - Len(free)
               available == AvailableEmployees(emps, free, day_num, current_date, shift)
           IN  {[mandatory_emps |-> mandatory_emps,
                 selected |-> free \o PySliceTo(srt, remaining_spots)] :
                  srt \in SortOutcomes(available, emps)}

\* the selection whose fill path takes the whole headcount for its
\* remaining spots
SlotOutcomesFullFill(emps, mandatory_emps, day_num, current_date, shift, people_per_shift) ==
  IF Len(mandatory_emps) >= people_per_shift
  THEN {[mandatory_emps |-> srt, selected |-> PySliceTo(srt, people_per_shift)] :
          srt \in SortOutcomes(mandatory_emps, emps)}
  ELSE LET available == AvailableEmployees(emps, mandatory_emps, day_num,
                                           current_date, shift)
       IN  {[mandatory_emps |-> mandatory_emps,
             selected |-> mandatory_emps \o PySliceTo(srt, people_per_shift)] :
              srt \in SortOutcomes(available, emps)}

\* the mandatory list as the slot leaves it, and the selection
SlotOutcomes(emps, mandatory_emps, day_num, current_date, shift, people_per_shift) ==
  IF Len(mandatory_emps) >= people_per_shift
  THEN {[mandatory_emps |-> srt, selected |-> PySliceTo(srt, people_per_shift)] :
          srt \in SortOutcomes(mandatory_emps, emps)}
  ELSE LET remaining_spots == people_per_shift - Len(mandatory_emps)
           available == AvailableEmployees(emps, mandatory_emps, day_num,
                                           current_date, shift)
       IN  IF remaining_spots > 0
           THEN {[mandatory_emps |-> mandatory_emps,
                  selected |-> mandatory_emps \o PySliceTo(srt, remaining_spots)] :
                   srt \in SortOutcomes(available, emps)}
           ELSE {[mandatory_emps |-> mandatory_emps, selected |-> mandatory_emps]}

\* the slot recorded for the first selected employee only
AppendAssignedFirst(emps, selected, slot) ==
  IF selected = <<>> THEN emps
  ELSE [emps EXCEPT ![Head(selected)].assigned_shifts = Append(@, slot)]

\* for emp in selected_employees: emp.assigned_shifts.append((day_num, shift))
RECURSIVE AppendAssigned(_, _, _)
AppendAssigned(emps, selected, slot) ==
  IF selected = <<>> THEN emps
  ELSE AppendAssigned(
         [emps EXCEPT ![Head(selected)].assigned_shifts = Append(@, slot)],
         Tail(selected), slot)

\* the store that writes nothing for a slot nobody was selected for
SetSlotStaffed(schedule, day_num, shift, value) ==
  LET old == IF day_num \in DOMAIN schedule THEN schedule[day_num] ELSE <<>>
      new == [s \in DOMAIN old \cup {shift} |-> IF s = shift THEN value ELSE old[s]]
  IN  IF value = <<NoAvailable>> THEN schedule
      ELSE [d \in DOMAIN schedule \cup {day_num} |->
             IF d = day_num THEN new ELSE schedule[d]]

\* the store that starts the day's dict anew with every slot
SetSlotFreshDay(schedule, day_num, shift, value) ==
  [d \in DOMAIN schedule \cup {day_num} |->
    IF d = day_num THEN [s \in {shift} |-> value] ELSE schedule[d]]

\* schedule[day_num][shift] = value, on a defaultdict(dict)
SetSlot(schedule, day_num, shift, value) ==
  LET old == IF day_num \in DOMAIN schedule THEN schedule[day_num] ELSE <<>>
      new == [s \in DOMAIN old \cup {shift} |-> IF s = shift THEN value ELSE old[s]]
  IN  [d \in DOMAIN schedule \cup {day_num} |->
        IF d = day_num THEN new ELSE schedule[d]]

\* the names of the selected employees listed in roster order
NamesInRosterOrder(emps, selected) ==
  LET inOrder == SelectSeq(Roster(emps), LAMBDA e : e \in Range(selected))
  IN  [k \in 1..Len(inOrder) |-> emps[inOrder[k]].name]

\* [emp.name for emp in selected_employees]
Names(emps, selected) == [k \in 1..Len(selected) |-> emps[selected[k]].name]

(* ------------------------------- state -------------------------------- *)

VARIABLES
  employees,        \* the caller's roster: a list of Employee records
  shifts_per_day,   \* the declared shifts, in order
  people_per_shift, \* the headcount
  year, month,      \* the month scheduled
  week,             \* None or <<k>>, k the index of a row of the month grid
  run,              \* run[r]: the state of the r-th call of create_schedule
  current_schedule, \* st.session_state.current_schedule: None or <<schedule>>
  edited_schedule,  \* st.session_state.edited_schedule: None or <<schedule>>
  shown,            \* the message the last handler put on the page
  saved             \* the saved_schedules row: None or <<row>>

inputs == <<employees, shifts_per_day, people_per_shift, year, month, week>>
session == <<current_schedule, edited_schedule, shown, saved>>
vars == <<employees, shifts_per_day, people_per_shift, year, month, week, run,
          current_schedule, edited_schedule, shown, saved>>

\* a call that has not been made yet
Idle ==
  [pc |-> "idle", caller |-> "none", raised |-> "none", people_per_shift |-> 0,
   employees |-> <<>>, days_to_schedule |-> <<>>, mandatory_assignments |-> <<>>,
   i |-> 1, j |-> 1, schedule |-> <<>>]

\* the working roster of another run that has been started, where there is
\* one, in place of a fresh copy
WorkingEmployeesKept(emps) ==
  IF \E q \in Runs : run[q].pc \notin {"idle", "failed", "rejected"}
  THEN run[CHOOSE q \in Runs : run[q].pc \notin {"idle", "failed", "rejected"}].employees
  ELSE [k \in DOMAIN emps |->
         [Employee(emps[k].name) EXCEPT
            !.unavailable_dates = emps[k].unavailable_dates,
            !.mandatory_dates = emps[k].mandatory_dates]]

\* the fresh copy of the roster the Generate handler hands to create_schedule
WorkingEmployees(emps) ==
  [k \in DOMAIN emps |->
    [Employee(emps[k].name) EXCEPT
       !.unavailable_dates = emps[k].unavailable_dates,
       !.mandatory_dates = emps[k].mandatory_dates]]

(* ------------------------------- inputs ------------------------------- *)

\* largest week index tried (the grids have five or six rows)
MaxWeekIndex == 6
\* the days constraints are put on: the first week of March 2025
ConstraintDays == {1, 2}

ConstraintShifts == {"Morning", "Evening"}

\* a constraint entry: <<employee, kind, day, shift>>
ConstraintEntries(n) ==
  (1..n) \X {"unavailable", "mandatory"} \X ConstraintDays \X ConstraintShifts

\* the roster of n employees holding the constraint entries C for month (y, m)
RosterOf(n, C, y, m) ==
  [k \in 1..n |->
    [Employee(AllNames[k]) EXCEPT
       !.unavailable_dates =
          {<<date(y, m, c[3]), c[4]>> : c \in {x \in C : x[1] = k /\ x[2] = "unavailable"}},
       !.mandatory_dates =
          {<<date(y, m, c[3]), c[4]>> : c \in {x \in C : x[1] = k /\ x[2] = "mandatory"}}]]

\* constrained rosters over the two-day first week of March 2025
InitConstrained ==
  /\ year = 2025 /\ month = 3 /\ week = <<0>>
  /\ shifts_per_day = <<"Morning", "Evening">>
  /\ people_per_shift \in 1..MaxPeople
  /\ \E n \in 1..NumEmployees :
       \E C \in SubsetsUpTo(ConstraintEntries(n), MaxConstraints) :
         employees = RosterOf(n, C, 2025, 3)

\* unconstrained rosters over every period: whole months, every week, and
\* week indices on both sides of the grid
InitCalendar ==
  /\ \E p \in Periods : year = p[1] /\ month = p[2]
  /\ week \in {None} \cup {<<w>> : w \in (0 - MaxWeekIndex - 1)..MaxWeekIndex}
  /\ shifts_per_day \in {<<"Morning">>, <<"Evening", "Morning">>,
                         <<"Morning", "Evening", "Night">>}
  /\ people_per_shift \in 1..MaxPeople
  /\ \E n \in 1..NumEmployees : employees = RosterOf(n, {}, year, month)

\* (date, shift) pairs that match no slot of the first week of March 2025
\* with shifts Morning and Evening: a day of another week, an undeclared
\* shift on a scheduled day, a scheduled day number in another month
OffSlotPairs ==
  {<<date(2025, 3, 3), "Morning">>, <<date(2025, 3, 1), "Night">>,
   <<date(2025, 4, 1), "Morning">>}

\* the roster emps with entry o = <<employee, kind, pair>> added
WithEntry(emps, o) ==
  [emps EXCEPT
     ![o[1]].unavailable_dates = IF o[2] = "unavailable" THEN @ \cup {o[3]} ELSE @,
     ![o[1]].mandatory_dates = IF o[2] = "mandatory" THEN @ \cup {o[3]} ELSE @]

\* the session before any handler has run, and an empty saved_schedules table
SessionInit ==
  /\ current_schedule = None /\ edited_schedule = None
  /\ shown = "none" /\ saved = {}

\* degenerate arguments of a direct call over the first week of March 2025:
\* an empty shift list, an empty roster or a headcount below 1, with any
\* part of the roster mandatory for the first slot
InitDegenerate ==
  /\ year = 2025 /\ month = 3 /\ week = <<0>>
  /\ shifts_per_day \in {<<>>, <<"Morning">>, <<"Morning", "Evening">>}
  /\ people_per_shift \in (0 - MaxPeople)..MaxPeople
  /\ \E n \in 0..NumEmployees :
       \E C \in SUBSET ((1..n) \X {"mandatory"} \X {1} \X {"Morning"}) :
         employees = RosterOf(n, C, 2025, 3)
  /\ shifts_per_day = <<>> \/ employees = <<>> \/ people_per_shift <= 0
  /\ run = [r \in Runs |-> Idle]
  /\ SessionInit

\* what the page offers: the first week of March 2025 with at most one
\* constraint entry, or the last week of February 2026 without constraints
InitSession ==
  /\ shifts_per_day = <<"Morning", "Evening">>
  /\ people_per_shift \in 1..MaxPeople
  /\ \E n \in 1..NumEmployees :
       \/ /\ year = 2025 /\ month = 3 /\ week = <<0>>
          /\ \E C \in SubsetsUpTo(ConstraintEntries(n), 1) :
               employees = RosterOf(n, C, 2025, 3)
       \/ /\ year = 2026 /\ month = 2 /\ week = <<4>>
          /\ employees = RosterOf(n, {}, 2026, 2)
  /\ run = [r \in Runs |-> Idle]
  /\ SessionInit

\* the first week of March 2025 with at most one constraint entry on its
\* slots and one entry that matches none of them
InitOffSlot ==
  /\ year = 2025 /\ month = 3 /\ week = <<0>>
  /\ shifts_per_day = <<"Morning", "Evening">>
  /\ people_per_shift \in 1..MaxPeople
  /\ \E n \in 1..NumEmployees :
       \E C \in SubsetsUpTo(ConstraintEntries(n), 1) :
         \E o \in (1..n) \X {"unavailable", "mandatory"} \X OffSlotPairs :
           employees = WithEntry(RosterOf(n, C, 2025, 3), o)
  /\ run = [r \in Runs |-> Idle]
  /\ SessionInit

Init ==
  /\ InitConstrained \/ InitCalendar
  /\ run = [r \in Runs |-> Idle]
  /\ SessionInit

(* ------------------------------- actions ------------------------------ *)

\* The call: the roster is copied (main), then create_schedule computes
\* days_to_schedule (month_cal[week] raises IndexError when the row does not
\* exist) and runs the mandatory pre-pass.
Entered(caller) ==
  IF ~WeekExists(year, month, week)
  THEN [Idle EXCEPT !.pc = "failed", !.caller = caller, !.raised = "IndexError",
                    !.people_per_shift = people_per_shift]
  ELSE LET emps == WorkingEmployees(employees)
           days == DaysToSchedule(year, month, week)
       IN  [pc |-> "loop", caller |-> caller, raised |-> "none",
            people_per_shift |-> people_per_shift, employees |-> emps,
            days_to_schedule |-> days,
            mandatory_assignments |->
               MandatoryAssignments(emps, days, shifts_per_day, year, month),
            i |-> 1, j |-> 1, schedule |-> <<>>]

\* the calls made so far have all come back
NoneRunning == \A q \in Runs : run[q].pc \in {"idle", "done", "failed", "rejected"}

\* the r-th call, made when the calls before it have come back
CallCreateSchedule(r) ==
  /\ run[r].pc = "idle"
  /\ \A q \in Runs : q < r => run[q].pc \in {"done", "failed", "rejected"}
  /\ run' = [run EXCEPT ![r] = Entered("create_schedule")]
  /\ UNCHANGED <<inputs, session>>

\* a call made while another call is between two of its slots
CallConcurrently(r) ==
  /\ run[r].pc = "idle"
  /\ run' = [run EXCEPT ![r] = Entered("create_schedule")]
  /\ UNCHANGED <<inputs, session>>

\* the roster check of the Generate handler that always passes
AlwaysEnough(emps, n) == FALSE

\* len(st.session_state.employees) < people_per_shift
NotEnoughEmployees(emps, n) == Len(emps) < n

\* The Generate Schedule button (drawn for a non-empty roster and shift
\* list): a roster smaller than the headcount is reported and nothing else
\* happens; otherwise the roster is copied and create_schedule entered.
Generate(r) ==
  /\ run[r].pc = "idle"
  /\ \A q \in Runs : q < r => run[q].pc \in {"done", "failed", "rejected"}
  /\ NoneRunning
  /\ employees # <<>> /\ shifts_per_day # <<>>
  /\ IF NotEnoughEmployees(employees, people_per_shift)
     THEN /\ run' = [run EXCEPT ![r] =
                      [Idle EXCEPT !.pc = "rejected", !.caller = "Generate",
                                   !.people_per_shift = people_per_shift]]
          /\ shown' = "Not enough employees!"
     ELSE /\ run' = [run EXCEPT ![r] = Entered("Generate")]
          /\ shown' = IF WeekExists(year, month, week) THEN "none" ELSE "IndexError"
  /\ UNCHANGED <<inputs, current_schedule, edited_schedule, saved>>

\* the loops with the last scheduled day left out
HasSlotButLastDay(R) ==
  R.pc = "loop" /\ R.i < Len(R.days_to_schedule) /\ R.j <= Len(shifts_per_day)

\* the loops have a (day, shift) iteration left
HasSlot(R) ==
  R.pc = "loop" /\ R.i <= Len(R.days_to_schedule) /\ R.j <= Len(shifts_per_day)

SlotDay(R) == R.days_to_schedule[R.i]
\* the shifts of a day taken from the last declared to the first
SlotShiftReversed(R) == shifts_per_day[Len(shifts_per_day) + 1 - R.j]

SlotShift(R) == shifts_per_day[R.j]

\* the run after one iteration of the inner loop with outcome out
Commit(R, out) ==
  LET day_num == SlotDay(R)
      shift == SlotShift(R)
      key == <<day_num, shift>>
      lastShift == R.j = Len(shifts_per_day)
  IN  [R EXCEPT
        !.mandatory_assignments =
           IF key \in DOMAIN @ THEN [@ EXCEPT ![key] = out.mandatory_emps] ELSE @,
        !.schedule =
           SetSlot(@, day_num, shift,
                   IF out.selected = <<>> THEN <<NoAvailable>>
                   ELSE Names(R.employees, out.selected)),
        !.employees = AppendAssigned(@, out.selected, key),
        !.i = IF lastShift THEN @ + 1 ELSE @,
        !.j = IF lastShift THEN 1 ELSE @ + 1]

\* the caller's records were the objects the loops write to
CallerEmployeesShared(emps, working) == working

\* The caller's roster after an iteration that left the working roster as
\* given: the working roster is a new list of new Employee objects holding
\* copies of the two constraint sets, and the loops write to the working
\* objects' assigned_shifts alone, so no write reaches the caller's records.
CallerEmployees(emps, working) == emps

\* one iteration of "for day_num ...: for shift ...:"
ProcessSlot(r) ==
  /\ HasSlot(run[r])
  /\ LET R == run[r]
         day_num == SlotDay(R)
         shift == SlotShift(R)
     IN  \E out \in SlotOutcomes(R.employees,
                                 GetMandatory(R.mandatory_assignments, <<day_num, shift>>),
                                 day_num, date(year, month, day_num), shift,
                                 people_per_shift) :
           /\ run' = [run EXCEPT ![r] = Commit(R, out)]
           /\ employees' = CallerEmployees(employees, Commit(R, out).employees)
  /\ UNCHANGED <<shifts_per_day, people_per_shift, year, month, week, session>>

\* return schedule; the Generate handler stores what it gets back
Return(r) ==
  /\ run[r].pc = "loop"
  /\ ~HasSlot(run[r])
  /\ run' = [run EXCEPT ![r].pc = "done"]
  /\ IF run[r].caller = "Generate"
     THEN current_schedule' = <<run[r].schedule>> /\ edited_schedule' = None
     ELSE UNCHANGED <<current_schedule, edited_schedule>>
  /\ UNCHANGED <<inputs, shown, saved>>

Next == \E r \in Runs : CallCreateSchedule(r) \/ ProcessSlot(r) \/ Return(r)

Spec == Init /\ [][Next]_vars

\* a call that has been entered goes on: nothing in the loops waits, so
\* the next iteration, and the return after the last one, are taken
Fairness == \A r \in Runs : WF_vars(ProcessSlot(r)) /\ WF_vars(Return(r))

\* unconstrained rosters over the first week of March 2025, two shifts a
\* day, and over the whole of February 2026, one shift a day
InitFair ==
  /\ \/ /\ year = 2025 /\ month = 3 /\ week = <<0>>
        /\ shifts_per_day = <<"Morning", "Evening">>
     \/ /\ year = 2026 /\ month = 2 /\ week = None
        /\ shifts_per_day = <<"Morning">>
  /\ people_per_shift \in 1..MaxPeople
  /\ \E n \in 1..NumEmployees : employees = RosterOf(n, {}, year, month)
  /\ run = [r \in Runs |-> Idle]
  /\ SessionInit

SpecFair == InitFair /\ [][Next]_vars /\ Fairness

(* ---------------------- saving and loading a schedule ----------------- *)

Digits == <<"0", "1", "2", "3", "4", "5", "6", "7", "8", "9">>

\* str(n) of a natural number: its decimal digits
RECURSIVE PyStr(_)
PyStr(n) == IF n < 10 THEN <<Digits[n + 1]>>
            ELSE PyStr(n \div 10) \o <<Digits[(n % 10) + 1]>>

DigitValue(c) == CHOOSE v \in 0..9 : Digits[v + 1] = c

\* the number read from the last digit alone
PyIntLastDigit(s) == DigitValue(s[Len(s)])

\* int(s) of a string of decimal digits
RECURSIVE PyInt(_)
PyInt(s) == IF Len(s) = 1 THEN DigitValue(s[1])
            ELSE 10 * PyInt(SubSeq(s, 1, Len(s) - 1)) + DigitValue(s[Len(s)])

\* n in decimal, zero-padded on the left to width w
RECURSIVE ZeroPad(_, _)
ZeroPad(n, w) == IF Len(PyStr(n)) >= w THEN PyStr(n)
                 ELSE <<"0">> \o ZeroPad(n, w - 1)

\* d.strftime('%Y-%m-%d')
strftime(d) ==
  ZeroPad(d.year, 4) \o <<"-">> \o ZeroPad(d.month, 2) \o <<"-">> \o ZeroPad(d.day, 2)

\* datetime.strptime(s, '%Y-%m-%d').date()
strptime(s) ==
  [year |-> PyInt(SubSeq(s, 1, 4)), month |-> PyInt(SubSeq(s, 6, 7)),
   day |-> PyInt(SubSeq(s, 9, 10))]

\* save_schedule: schedule_data[str(day)] = shifts for every day, a later
\* day overwriting an earlier one under the same key
ScheduleData(schedule) ==
  [key \in {PyStr(d) : d \in DOMAIN schedule} |->
     schedule[CHOOSE d \in DOMAIN schedule :
                /\ PyStr(d) = key
                /\ \A e \in DOMAIN schedule : PyStr(e) = key => e <= d]]

\* the employee_data the save form builds from the session's roster
EmployeeData(emps) ==
  [k \in DOMAIN emps |->
     [name |-> emps[k].name,
      unavailable_dates |-> {<<strftime(x[1]), x[2]>> : x \in emps[k].unavailable_dates},
      mandatory_dates |-> {<<strftime(x[1]), x[2]>> : x \in emps[k].mandatory_dates}]]

\* Load Schedule: formatted_schedule[int(day_str)] = shifts
FormattedSchedule(schedule_data) ==
  [day \in {PyInt(key) : key \in DOMAIN schedule_data} |->
     schedule_data[CHOOSE key \in DOMAIN schedule_data : PyInt(key) = day]]

\* Load Schedule: the roster rebuilt from employees_data
LoadedEmployees(employees_data) ==
  [k \in DOMAIN employees_data |->
     [Employee(employees_data[k].name) EXCEPT
        !.unavailable_dates =
           {<<strptime(x[1]), x[2]>> : x \in employees_data[k].unavailable_dates},
        !.mandatory_dates =
           {<<strptime(x[1]), x[2]>> : x \in employees_data[k].mandatory_dates}]]

\* the schedule the page shows, exports and saves
ExportSchedule == IF edited_schedule # None THEN edited_schedule[1] ELSE current_schedule[1]

(* ------------------------ showing and editing ------------------------- *)

\* show_current of a page run in which Generate was not pressed, or was
\* pressed and stored its schedule: a schedule is stored.  (A press that
\* reports "Not enough employees!" leaves show_current False for that run.)
ShowCurrent == edited_schedule # None \/ current_schedule # None

\* The call at line 446.  main assigns the name display_schedule at line
\* 443, so the name is a local of main throughout and holds the schedule to
\* show, a dict, when line 446 calls it: the call raises TypeError
\* ('collections.defaultdict' object is not callable) whenever it is reached,
\* and the module-level function display_schedule is never called.
DisplayScheduleRaises == ShowCurrent

\* The edit section (Day, Shift, Select Employees, Update Schedule, Reset to
\* Generated Schedule) is drawn by the statements that follow the call at
\* line 446 inside "if show_current:".
EditSectionDrawn == ShowCurrent /\ ~DisplayScheduleRaises

\* the selections of the "Select Employees" multiselect: lists of different
\* names of the session's roster
Selections(emps) ==
  {<<>>} \cup {<<emps[a].name>> : a \in DOMAIN emps}
         \cup {<<emps[p[1]].name, emps[p[2]].name>> :
                 p \in {q \in (DOMAIN emps) \X (DOMAIN emps) : q[1] # q[2]}}

\* The body of "if st.button('Update Schedule'):" for slot (edit_day,
\* edit_shift) and selection new_emps: the session's schedules after it.
\* With no edited schedule yet, a defaultdict copy of the generated one is
\* made, day by day and list by list; the slot is then overwritten in the
\* edited schedule, an empty selection storing the sentinel.
UpdateSchedule(current, edited, edit_day, edit_shift, new_emps) ==
  LET copied == IF edited = None
                THEN [day \in DOMAIN current[1] |->
                        [shift \in DOMAIN current[1][day] |-> current[1][day][shift]]]
                ELSE edited[1]
  IN  [current_schedule |-> current,
       edited_schedule |->
          <<SetSlot(copied, edit_day, edit_shift,
                    IF new_emps = <<>> THEN <<NoAvailable>> ELSE new_emps)>>]

\* the body of "if st.button('Reset to Generated Schedule'):"
ResetToGenerated(current, edited) ==
  [current_schedule |-> current, edited_schedule |-> None]

\* the sidebar's "People needed per shift" set to n
SetPeoplePerShift(n) ==
  /\ NoneRunning
  /\ n # people_per_shift
  /\ people_per_shift' = n
  /\ UNCHANGED <<employees, shifts_per_day, year, month, week, run, session>>

\* save_schedule called on the session's schedule and roster, the call the
\* save form makes: a row is added to saved_schedules
SaveSchedule ==
  /\ NoneRunning
  /\ current_schedule # None
  /\ saved' = saved \cup {[month |-> month, year |-> year,
                           schedule_data |-> ScheduleData(ExportSchedule),
                           employees_data |-> EmployeeData(employees)]}
  /\ shown' = "Schedule saved successfully"
  /\ UNCHANGED <<inputs, run, current_schedule, edited_schedule>>

\* the Load Schedule button of a saved row
LoadSchedule ==
  /\ NoneRunning
  /\ \E row \in saved :
       /\ employees' = LoadedEmployees(row.employees_data)
       /\ current_schedule' = <<FormattedSchedule(row.schedule_data)>>
  /\ edited_schedule' = None
  /\ shown' = "Loaded schedule"
  /\ UNCHANGED <<shifts_per_day, people_per_shift, year, month, week, run, saved>>

NextSession ==
  \/ \E r \in Runs : Generate(r) \/ ProcessSlot(r) \/ Return(r)
  \/ \E n \in 1..MaxPeople : SetPeoplePerShift(n)
  \/ SaveSchedule
  \/ LoadSchedule

\* the page: Generate presses, headcount changes, saving and loading
SpecSession == InitSession /\ [][NextSession]_vars

\* create_schedule run from record R to the end of its loops with no other
\* call in between
RECURSIVE RunToEnd(_)
RunToEnd(R) ==
  IF HasSlot(R)
  THEN RunToEnd(Commit(R, CHOOSE out \in SlotOutcomes(
                              R.employees,
                              GetMandatory(R.mandatory_assignments,
                                           <<SlotDay(R), SlotShift(R)>>),
                              SlotDay(R), date(year, month, SlotDay(R)), SlotShift(R),
                              people_per_shift) : TRUE))
  ELSE R

NextInterleaved == \E r \in Runs : CallConcurrently(r) \/ ProcessSlot(r) \/ Return(r)

\* two calls, each on its own copy of the roster, their slots interleaved
SpecInterleaved == InitSession /\ [][NextInterleaved]_vars

\* direct calls with degenerate arguments
SpecDegenerate == InitDegenerate /\ [][Next]_vars

\* direct calls on rosters holding an entry that matches no scheduled slot
SpecOffSlot == InitOffSlot /\ [][Next]_vars

(* ------------------------- vocabulary of the claims -------------------- *)

\* the roster positions, and the inputs' constraints for slot (d, s)
Staff == 1..Len(employees)
MarkedMandatory(d, s) ==
  {k \in Staff : <<date(year, month, d), s>> \in employees[k].mandatory_dates}
MarkedUnavailable(d, s) ==
  {k \in Staff : <<date(year, month, d), s>> \in employees[k].unavailable_dates}

\* the slots run r has committed, and the Assignment of one of them
Committed(r) ==
  {k \in (DOMAIN run[r].schedule) \X Range(shifts_per_day) :
     k[2] \in DOMAIN run[r].schedule[k[1]]}
Assignment(r, k) == run[r].schedule[k[1]][k[2]]

\* the employees named in slot k of run r
Placed(r, k) == {e \in Staff : employees[e].name \in Range(Assignment(r, k))}

\* the number of constraint entries of the roster
ConstraintCount ==
  LET RECURSIVE Sum(_)
      Sum(n) == IF n = 0 THEN 0
                ELSE Sum(n - 1) + Cardinality(employees[n].unavailable_dates)
                                + Cardinality(employees[n].mandatory_dates)
  IN  Sum(Len(employees))

(* -------------------------------- C1 ---------------------------------- *)

\* C1: in every committed slot whose number of mandatory employees is at
\* most the headcount, every mandatory employee is in the Assignment.
C1_MandatoryHonored ==
  [](\A r \in Runs : \A k \in Committed(r) :
       Cardinality(MarkedMandatory(k[1], k[2])) <= people_per_shift
         => MarkedMandatory(k[1], k[2]) \subseteq Placed(r, k))

\* a committed slot, not the first of its run, with as many mandatory
\* employees as the headcount (at least two)
C1_Witness ==
  \E r \in Runs : \E k \in Committed(r) :
    /\ people_per_shift >= 2
    /\ k # <<run[r].days_to_schedule[1], shifts_per_day[1]>>
    /\ Cardinality(MarkedMandatory(k[1], k[2])) = people_per_shift
    /\ MarkedMandatory(k[1], k[2]) \subseteq Placed(r, k)

(* -------------------------------- C2 ---------------------------------- *)

\* C2: an employee unavailable for a slot and not mandatory for it is never
\* in that slot's Assignment.
C2_UnavailableRespected ==
  \A r \in Runs : \A k \in Committed(r) :
    \A e \in MarkedUnavailable(k[1], k[2]) \ MarkedMandatory(k[1], k[2]) :
      e \notin Placed(r, k)

\* the first employee of the roster is unavailable for the first slot of the
\* run, which went to somebody else
C2_Witness ==
  \E r \in Runs : \E k \in Committed(r) :
    /\ k = <<1, shifts_per_day[1]>>
    /\ 1 \in MarkedUnavailable(k[1], k[2]) \ MarkedMandatory(k[1], k[2])
    /\ Assignment(r, k) # <<NoAvailable>>

(* -------------------------------- C3 ---------------------------------- *)

\* run r takes one iteration of the day/shift loop
Iterates(r) == HasSlot(run[r]) /\ run'[r] # run[r]

\* the employees with a shift on day d when run r stands before its next slot
WorksThatDay(r, d) ==
  {e \in Staff : d \in {x[1] : x \in Range(run[r].employees[e].assigned_shifts)}}

\* C3: a slot with more mandatory employees than the headcount N gets
\* exactly N of them, those with the lowest counters when the slot is
\* processed, ties by roster order, and nobody else.
C3_MandatoryOverflow ==
  [][\A r \in Runs :
       Iterates(r) =>
         LET d == SlotDay(run[r])
             s == SlotShift(run[r])
             M == MarkedMandatory(d, s)
             cnt(e) == Len(run[r].employees[e].assigned_shifts)
             A == run'[r].schedule[d][s]
             taken == {e \in Staff : employees[e].name \in Range(A)}
         IN  Cardinality(M) > people_per_shift =>
               /\ Len(A) = people_per_shift
               /\ Cardinality(taken) = people_per_shift
               /\ taken \subseteq M
               /\ \A e \in taken : \A f \in M \ taken :
                    cnt(e) < cnt(f) \/ (cnt(e) = cnt(f) /\ e < f)]_vars

\* an overflowing slot where a mandatory employee earlier in the roster was
\* left out for one later in the roster
C3_Witness ==
  \E r \in Runs : \E k \in Committed(r) :
    /\ Cardinality(MarkedMandatory(k[1], k[2])) > people_per_shift
    /\ \E e \in Placed(r, k) : \E f \in MarkedMandatory(k[1], k[2]) \ Placed(r, k) : f < e

(* -------------------------------- C4 ---------------------------------- *)

\* C4: no name occurs twice in an Assignment.
C4_NoDuplicateNames ==
  [](\A r \in Runs : \A k \in Committed(r) :
       \A a, b \in 1..Len(Assignment(r, k)) :
         a # b => Assignment(r, k)[a] # Assignment(r, k)[b])

\* a slot holding a mandatory employee, available and first of the roster,
\* together with an employee of the fill path
C4_Witness ==
  \E r \in Runs : \E k \in Committed(r) :
    /\ 1 \in MarkedMandatory(k[1], k[2]) \ MarkedUnavailable(k[1], k[2])
    /\ Placed(r, k) \ MarkedMandatory(k[1], k[2]) # {}
    /\ k[2] = shifts_per_day[1]

(* -------------------------------- C5 ---------------------------------- *)

\* C5: a slot nobody is mandatory for, with every employee unavailable for
\* it or already working that day, gets the sentinel, and processing it
\* changes no employee's assigned shifts.
C5_SentinelNoMutation ==
  [][\A r \in Runs :
       Iterates(r) =>
         LET d == SlotDay(run[r])
             s == SlotShift(run[r])
         IN  (/\ MarkedMandatory(d, s) = {}
              /\ Staff \subseteq MarkedUnavailable(d, s) \cup WorksThatDay(r, d))
               => /\ run'[r].schedule[d][s] = <<NoAvailable>>
                  /\ run'[r].employees = run[r].employees]_vars

\* a sentinel slot with one employee unavailable and another, available,
\* already working that day
C5_Witness ==
  \E r \in Runs : \E k \in Committed(r) :
    /\ Assignment(r, k) = <<NoAvailable>>
    /\ MarkedMandatory(k[1], k[2]) = {}
    /\ MarkedUnavailable(k[1], k[2]) # {}
    /\ WorksThatDay(r, k[1]) \ MarkedUnavailable(k[1], k[2]) # {}

(* -------------------------------- C6 ---------------------------------- *)

\* C6: every Assignment is the sentinel alone or between 1 and headcount
\* names of the roster.
C6_AssignmentShape ==
  [](\A r \in Runs : \A k \in Committed(r) :
       \/ Assignment(r, k) = <<NoAvailable>>
       \/ /\ Len(Assignment(r, k)) >= 1
          /\ Len(Assignment(r, k)) <= people_per_shift
          /\ \A a \in 1..Len(Assignment(r, k)) :
               \E e \in Staff : employees[e].name = Assignment(r, k)[a])

\* one day holding a full slot, a slot one short of the headcount and a
\* sentinel slot, with more employees in the roster than the headcount
C6_Witness ==
  \E r \in Runs : \E d \in DOMAIN run[r].schedule :
    /\ Len(employees) > people_per_shift
    /\ \E a, b, c \in DOMAIN run[r].schedule[d] :
         /\ Len(run[r].schedule[d][a]) = people_per_shift
         /\ run[r].schedule[d][a] # <<NoAvailable>>
         /\ Len(run[r].schedule[d][b]) = people_per_shift - 1
         /\ run[r].schedule[d][b] # <<NoAvailable>>
         /\ run[r].schedule[d][c] = <<NoAvailable>>

(* -------------------------------- C7 ---------------------------------- *)

\* C7: two runs over the same inputs, each on its own fresh copy of the
\* roster, end the same way with the same schedule.
C7_Deterministic ==
  \A p, q \in Runs :
    (run[p].pc \in {"done", "failed"} /\ run[q].pc \in {"done", "failed"})
      => /\ run[p].pc = run[q].pc
         /\ run[p].schedule = run[q].schedule

\* both runs have returned a schedule in which counters tied and constraints
\* applied
C7_Witness ==
  /\ run[1].pc = "done" /\ run[2].pc = "done"
  /\ ConstraintCount >= 2
  /\ Len(employees) >= 3
  /\ \E k \in Committed(2) : Len(Assignment(2, k)) >= 2

(* -------------------------------- C8 ---------------------------------- *)

\* the final counter of an employee in run r
FinalCount(r, e) == Len(run[r].employees[e].assigned_shifts)

\* the number of slots of run r
SlotCount(r) == Len(run[r].days_to_schedule) * Len(shifts_per_day)

\* C8: without constraints and with a slot count divisible by the roster
\* size, the final counters of a run differ by at most 1.
C8_FairnessSpread ==
  \A r \in Runs :
    (/\ run[r].pc = "done"
     /\ ConstraintCount = 0
     /\ SlotCount(r) % Len(employees) = 0)
      => \A e, f \in Staff : FinalCount(r, e) - FinalCount(r, f) <= 1

\* such a run over several days and several shifts a day in which the
\* one-shift-per-day guard left a slot short although the roster is larger
\* than the headcount
C8_Witness ==
  \E r \in Runs :
    /\ run[r].pc = "done"
    /\ ConstraintCount = 0
    /\ SlotCount(r) % Len(employees) = 0
    /\ Len(shifts_per_day) >= 2 /\ Len(run[r].days_to_schedule) >= 2
    /\ Len(employees) > people_per_shift
    /\ \E k \in Committed(r) :
         Assignment(r, k) = <<NoAvailable>> \/ Len(Assignment(r, k)) < people_per_shift
    /\ \E e \in Staff : FinalCount(r, e) >= 2

(* -------------------------------- C9 ---------------------------------- *)

\* the rows of the month grid, and the days of the month in row w (0-based)
GridRows == Len(monthcalendar(year, month))
RowDays(w) == {monthcalendar(year, month)[w + 1][c] : c \in 1..WeekLen} \ {0}

\* C9: with week = w the day keys of the schedule are exactly the days of
\* the month in row w of the grid.
C9_WeekFilter ==
  [](\A r \in Runs :
       (run[r].pc = "done" /\ week # None /\ week[1] \in 0..(GridRows - 1))
         => DOMAIN run[r].schedule = RowDays(week[1]))

\* the last row of February 2026, which is neither full nor in week order 1..7
C9_Witness ==
  \E r \in Runs :
    /\ run[r].pc = "done"
    /\ year = 2026 /\ month = 2 /\ week = <<4>>
    /\ DOMAIN run[r].schedule = 23..28

(* -------------------------------- C10 --------------------------------- *)

\* C10: a week index outside 0..rows-1, negative ones included, makes the
\* call fail without a schedule.
C10_InvalidWeekFails ==
  \A r \in Runs :
    (week # None /\ week[1] \notin 0..(GridRows - 1) /\ run[r].pc # "idle")
      => run[r].pc = "failed" /\ run[r].schedule = <<>>

(* -------------------------------- C11 --------------------------------- *)

\* the number of days of the scheduled month
DaysInMonth == monthrange(year, month)[2]

\* C11: without a week index the days scheduled are 1..days-in-month in
\* ascending order, and the returned schedule has exactly one Assignment,
\* a sentinel or a list of names, for every (day, declared shift) pair; a
\* run over a valid week or the whole month never fails.
C11_WholeMonthTotal ==
  \A r \in Runs :
    /\ (week = None /\ run[r].pc \in {"loop", "done"})
         => run[r].days_to_schedule = [k \in 1..DaysInMonth |-> k]
    /\ (week = None /\ run[r].pc # "idle") => run[r].raised = "none"
    /\ (week = None /\ run[r].pc = "done")
         => /\ DOMAIN run[r].schedule = 1..DaysInMonth
            /\ \A d \in 1..DaysInMonth :
                 /\ DOMAIN run[r].schedule[d] = Range(shifts_per_day)
                 /\ \A s \in Range(shifts_per_day) :
                      /\ run[r].schedule[d][s] \in Seq({employees[e].name : e \in Staff}
                                                       \cup {NoAvailable})
                      /\ run[r].schedule[d][s] # <<>>

\* a finished whole-month run over 31 days and two shifts a day in which a
\* slot of the last day holds the sentinel and another slot holds a name
C11_Witness ==
  \E r \in Runs :
    /\ week = None /\ run[r].pc = "done" /\ DaysInMonth = 31
    /\ Len(shifts_per_day) = 2
    /\ run[r].schedule[31][shifts_per_day[2]] = <<NoAvailable>>
    /\ run[r].schedule[31][shifts_per_day[1]] # <<NoAvailable>>

(* -------------------------------- C12 --------------------------------- *)

\* the employees mandatory for some declared slot of day d
MandatoryThatDay(d) == UNION {MarkedMandatory(d, s) : s \in Range(shifts_per_day)}

\* the declared shifts of day d in which run r has placed employee e
ShiftsWorked(r, d, e) ==
  {s \in Range(shifts_per_day) : <<d, s>> \in Committed(r) /\ e \in Placed(r, <<d, s>>)}

\* C12: an employee placed in a slot of day d without being mandatory for
\* that slot had no shift on day d when the slot was processed; so an
\* employee mandatory for no slot of day d is in at most one shift of day d.
C12_OneShiftPerDay ==
  /\ [][\A r \in Runs :
          Iterates(r) =>
            LET d == SlotDay(run[r])
                s == SlotShift(run[r])
                A == run'[r].schedule[d][s]
                taken == {e \in Staff : employees[e].name \in Range(A)}
            IN  (taken \ MarkedMandatory(d, s)) \cap WorksThatDay(r, d) = {}]_vars
  /\ [](\A r \in Runs : \A d \in DOMAIN run[r].schedule :
          \A e \in Staff \ MandatoryThatDay(d) :
            Cardinality(ShiftsWorked(r, d, e)) <= 1)

\* the second shift of a day went short, with one name for a headcount of
\* two, while an employee free of constraints that day, who worked the first
\* shift, was passed over
C12_Witness ==
  \E r \in Runs : \E d \in DOMAIN run[r].schedule :
    /\ Len(shifts_per_day) >= 2 /\ people_per_shift = 2
    /\ <<d, shifts_per_day[2]>> \in Committed(r)
    /\ Assignment(r, <<d, shifts_per_day[2]>>) # <<NoAvailable>>
    /\ Len(Assignment(r, <<d, shifts_per_day[2]>>)) = 1
    /\ \E e \in Staff \ MandatoryThatDay(d) :
         /\ e \notin MarkedUnavailable(d, shifts_per_day[2])
         /\ ShiftsWorked(r, d, e) = {shifts_per_day[1]}

(* -------------------------------- C13 --------------------------------- *)

\* C13: an employee marked both mandatory and unavailable for a slot is in
\* that slot's Assignment whenever the slot has no more mandatory employees
\* than the headcount.
C13_MandatoryBeatsUnavailable ==
  [](\A r \in Runs : \A k \in Committed(r) :
       \A e \in MarkedMandatory(k[1], k[2]) \cap MarkedUnavailable(k[1], k[2]) :
         Cardinality(MarkedMandatory(k[1], k[2])) <= people_per_shift
           => employees[e].name \in Range(Assignment(r, k)))

\* the last employee of a roster of three, mandatory and unavailable for a
\* slot with a headcount of one, holds that slot alone
C13_Witness ==
  \E r \in Runs : \E k \in Committed(r) :
    /\ Len(employees) = 3 /\ people_per_shift = 1
    /\ 3 \in MarkedMandatory(k[1], k[2]) \cap MarkedUnavailable(k[1], k[2])
    /\ Assignment(r, k) = <<employees[3].name>>

(* -------------------------------- C19 --------------------------------- *)

\* the slots with an Assignment in the schedule of run record R
CommittedIn(R) ==
  {k \in (DOMAIN R.schedule) \X Range(shifts_per_day) : k[2] \in DOMAIN R.schedule[k[1]]}

\* the position of shift s in the declared shift list
ShiftPos(s) == CHOOSE j \in 1..Len(shifts_per_day) : shifts_per_day[j] = s

\* slot a comes before slot b: an earlier day, or the same day and an
\* earlier-declared shift
SlotBefore(a, b) == a[1] < b[1] \/ (a[1] = b[1] /\ ShiftPos(a[2]) < ShiftPos(b[2]))

\* C19: every iteration commits exactly one new slot, and when slot (d, s)
\* is committed the slots already committed are exactly the slots of the
\* run that come before it: those of earlier days and those of day d with
\* an earlier-declared shift.
C19_CommitOrder ==
  [][\A r \in Runs :
       Iterates(r) =>
         LET new == CommittedIn(run'[r]) \ Committed(r)
             all == Range(run[r].days_to_schedule) \X Range(shifts_per_day)
         IN  /\ Cardinality(new) = 1
             /\ Committed(r) \subseteq CommittedIn(run'[r])
             /\ \A k \in new :
                  Committed(r) = {b \in all : SlotBefore(b, k)}]_vars

\* a run over the last row of February 2026 with Evening declared before
\* Morning has committed both shifts of day 23 and the Evening of day 24
C19_Witness ==
  \E r \in Runs :
    /\ shifts_per_day = <<"Evening", "Morning">>
    /\ run[r].pc = "loop"
    /\ Committed(r) = {<<23, "Evening">>, <<23, "Morning">>, <<24, "Evening">>}

(* -------------------------------- C20 --------------------------------- *)

\* the employees the fill path may take for slot (d, s) when run r stands
\* before it: not mandatory for the slot, available for it, no shift on day d
Eligible(r, d, s) ==
  (Staff \ (MarkedMandatory(d, s) \cup MarkedUnavailable(d, s))) \ WorksThatDay(r, d)

\* C20: a slot with m < N mandatory employees gets, besides them, as many
\* eligible candidates as fit in the N - m remaining places, and nobody
\* else; every candidate taken has a lower counter than every eligible
\* candidate left out, or an equal counter and an earlier roster position.
\* A roster without constraints has its first slot given to the first N
\* employees of the roster, in roster order.
C20_FillByLowestCount ==
  /\ [][\A r \in Runs :
          Iterates(r) =>
            LET d == SlotDay(run[r])
                s == SlotShift(run[r])
                M == MarkedMandatory(d, s)
                cnt(e) == Len(run[r].employees[e].assigned_shifts)
                A == run'[r].schedule[d][s]
                taken == {e \in Staff : employees[e].name \in Range(A)}
                added == taken \ M
                elig == Eligible(r, d, s)
            IN  Cardinality(M) < people_per_shift =>
                  /\ added \subseteq elig
                  /\ Cardinality(added) =
                       Min(people_per_shift - Cardinality(M), Cardinality(elig))
                  /\ \A e \in added : \A f \in elig \ added :
                       cnt(e) < cnt(f) \/ (cnt(e) = cnt(f) /\ e < f)]_vars
  /\ [](\A r \in Runs :
          (ConstraintCount = 0 /\ run[r].schedule # <<>>)
            => Assignment(r, <<run[r].days_to_schedule[1], shifts_per_day[1]>>)
                 = [k \in 1..Min(people_per_shift, Len(employees)) |-> employees[k].name])

\* a slot with one mandatory employee and a headcount of two whose second
\* place went to the last employee of the roster, ahead of an eligible
\* employee earlier in the roster with a higher counter
C20_Witness ==
  \E r \in Runs : \E k \in Committed(r) : \E f \in Staff :
    /\ people_per_shift = 2 /\ Len(employees) = 3
    /\ Cardinality(MarkedMandatory(k[1], k[2])) = 1
    /\ 3 \in Placed(r, k) \ MarkedMandatory(k[1], k[2])
    /\ f < 3 /\ f \notin Placed(r, k)
    /\ f \notin MarkedUnavailable(k[1], k[2])
    /\ ShiftsWorked(r, k[1], f) = {}
    /\ \E d \in DOMAIN run[r].schedule : d < k[1] /\ ShiftsWorked(r, d, f) # {}

(* -------------------------------- C15 --------------------------------- *)

\* C15: a call with an empty shift list, an empty roster or a headcount
\* below 1 does not fail, and the schedule it returns is empty or holds the
\* sentinel in every slot; with a headcount of zero or less no employee
\* name is in the schedule.
C15_DegenerateInputs ==
  \A r \in Runs :
    /\ run[r].pc # "idle" => run[r].raised = "none"
    /\ run[r].pc = "done" =>
         \/ run[r].schedule = <<>>
         \/ \A k \in Committed(r) : Assignment(r, k) = <<NoAvailable>>
    /\ people_per_shift <= 0 =>
         \A k \in Committed(r) : Placed(r, k) = {}

(* -------------------------------- C14 --------------------------------- *)

\* C14: every run the Generate handler starts finds the counter of every
\* employee of its working roster at zero, whatever the runs before it
\* did; and two Generate presses with the same roster and configuration
\* return the same schedule.
C14_GenerateRepeatable ==
  /\ \A r \in Runs :
       (run[r].caller = "Generate" /\ run[r].pc = "loop" /\ run[r].schedule = <<>>)
         => \A e \in DOMAIN run[r].employees :
              run[r].employees[e].assigned_shifts = <<>>
  /\ \A p, q \in Runs :
       (/\ run[p].caller = "Generate" /\ run[p].pc = "done"
        /\ run[q].caller = "Generate" /\ run[q].pc = "done"
        /\ run[p].people_per_shift = run[q].people_per_shift)
         => run[p].schedule = run[q].schedule

\* the second press has returned with the headcount of the first, whose
\* run had left the employees with unequal counters
C14_Witness ==
  /\ run[1].caller = "Generate" /\ run[1].pc = "done"
  /\ run[2].caller = "Generate" /\ run[2].pc = "done"
  /\ run[1].people_per_shift = run[2].people_per_shift
  /\ \E e, f \in DOMAIN run[1].employees :
       Len(run[1].employees[e].assigned_shifts) > Len(run[1].employees[f].assigned_shifts)
  /\ current_schedule = <<run[2].schedule>>

(* -------------------------------- C16 --------------------------------- *)

\* C16: a Generate press with a roster smaller than the headcount is
\* rejected before create_schedule is entered: the error is put on the
\* page, the press leaves no run behind, and the stored generated schedule
\* and edited schedule stay as they were.
C16_SmallRosterRejected ==
  [][\A r \in Runs :
       (/\ run[r].pc = "idle" /\ run'[r].pc # "idle"
        /\ Len(employees) < people_per_shift)
         => /\ run'[r].pc = "rejected"
            /\ run'[r].schedule = <<>> /\ run'[r].employees = <<>>
            /\ shown' = "Not enough employees!"
            /\ current_schedule' = current_schedule
            /\ edited_schedule' = edited_schedule]_vars

\* the first press stored a schedule, the headcount was then raised above
\* the roster size, and the second press was rejected with the stored
\* schedule still that of the first
C16_Witness ==
  /\ run[1].pc = "done" /\ run[2].pc = "rejected"
  /\ run[2].people_per_shift > Len(employees)
  /\ run[1].people_per_shift <= Len(employees)
  /\ shown = "Not enough employees!"
  /\ current_schedule = <<run[1].schedule>> /\ edited_schedule = None

(* -------------------------------- C17 --------------------------------- *)

\* the schedules the runs have returned
Returned == {run[r].schedule : r \in {q \in Runs : run[q].pc = "done"}}

\* C17: saving stores the schedule under the decimal strings of its day
\* numbers, and loading a saved row puts back a schedule with the integer
\* day keys and the shift -> Assignment mappings of the schedule that was
\* saved.
C17_SaveLoadRoundTrip ==
  [][/\ \A row \in saved' \ saved :
          /\ DOMAIN row.schedule_data = {PyStr(d) : d \in DOMAIN ExportSchedule}
          /\ \A d \in DOMAIN ExportSchedule :
               row.schedule_data[PyStr(d)] = ExportSchedule[d]
          /\ FormattedSchedule(row.schedule_data) = ExportSchedule
     /\ (run' = run /\ current_schedule' # current_schedule)
          => /\ current_schedule'[1] \in Returned
             /\ DOMAIN current_schedule'[1] \subseteq 1..DaysInMonth]_vars

\* the schedule of the first press, over days 23 to 28, was saved; a second
\* press with another headcount replaced it on the page; loading the saved
\* row put the first schedule back
C17_Witness ==
  /\ run[1].pc = "done" /\ run[2].pc = "done"
  /\ run[1].schedule # run[2].schedule
  /\ DOMAIN run[1].schedule = 23..28
  /\ shown = "Loaded schedule"
  /\ current_schedule = <<run[1].schedule>>

(* -------------------------------- C18 --------------------------------- *)

\* a call of create_schedule that runs alone from entry to the end
RunAlone == RunToEnd(Entered("create_schedule"))

\* C18: however the slot steps of two calls are interleaved, each call,
\* from wherever it stands, ends with the schedule and the counters of a
\* call that runs alone.
C18_InterleavedRunsIndependent ==
  \A r \in Runs :
    run[r].pc \in {"loop", "done"} =>
      /\ RunToEnd(run[r]).schedule = RunAlone.schedule
      /\ RunToEnd(run[r]).employees = RunAlone.employees
      /\ run[r].pc = "done" =>
           /\ run[r].schedule = RunAlone.schedule
           /\ \A e \in Staff :
                run[r].employees[e].assigned_shifts = RunAlone.employees[e].assigned_shifts

\* both calls stand between two of their slots, each with slots committed
\* and slots to come, and one of them is further on than the other
C18_Witness ==
  /\ run[1].pc = "loop" /\ run[1].schedule # <<>> /\ HasSlot(run[1])
  /\ run[2].pc = "loop" /\ run[2].schedule # <<>> /\ HasSlot(run[2])
  /\ CommittedIn(run[1]) # CommittedIn(run[2])
  /\ \E e \in Staff : Len(run[2].employees[e].assigned_shifts) >= 2

(* -------------------------------- C21 --------------------------------- *)

\* the roster position of the employee called name
NameIndex(name) == CHOOSE e \in Staff : employees[e].name = name

\* C21: the names of an Assignment are in selection order. With fewer
\* mandatory employees than the headcount the mandatory employees come
\* first, in roster order, and the fill-path employees follow in ascending
\* order of their counters at that moment (equal counters in roster order);
\* otherwise the names are in ascending counter order, equal counters in
\* roster order.
C21_SelectionOrder ==
  [][\A r \in Runs :
       Iterates(r) =>
         LET d == SlotDay(run[r])
             s == SlotShift(run[r])
             M == MarkedMandatory(d, s)
             m == Cardinality(M)
             cnt(e) == Len(run[r].employees[e].assigned_shifts)
             A == run'[r].schedule[d][s]
             at(a) == NameIndex(A[a])
             byCount(a, b) ==
               cnt(at(a)) < cnt(at(b)) \/ (cnt(at(a)) = cnt(at(b)) /\ at(a) < at(b))
         IN  A # <<NoAvailable>> =>
               IF m < people_per_shift
               THEN /\ Len(A) >= m
                    /\ {at(a) : a \in 1..m} = M
                    /\ \A a, b \in 1..m : a < b => at(a) < at(b)
                    /\ \A a, b \in (m + 1)..Len(A) : a < b => byCount(a, b)
               ELSE \A a, b \in 1..Len(A) : a < b => byCount(a, b)]_vars

\* a slot with a headcount of two whose Assignment names the last employee
\* of a roster of three, mandatory for it, ahead of the first employee
C21_Witness ==
  \E r \in Runs : \E k \in Committed(r) :
    /\ Len(employees) = 3 /\ people_per_shift = 2
    /\ MarkedMandatory(k[1], k[2]) = {3}
    /\ Assignment(r, k) = <<employees[3].name, employees[1].name>>

(* -------------------------------- C22 --------------------------------- *)

\* the committed slots of run r whose Assignment names employee e
SlotsOf(r, e) == {k \in Committed(r) : e \in Placed(r, k)}

\* C22: at every point of a run the assigned slots of an employee are
\* exactly the committed slots that name the employee, each recorded once,
\* so the counter is their number; an iteration adds 1 to the counters of
\* the employees it names and leaves the other counters as they are.
C22_CounterCountsCommits ==
  /\ [](\A r \in Runs : \A e \in DOMAIN run[r].employees :
          /\ Range(run[r].employees[e].assigned_shifts) = SlotsOf(r, e)
          /\ Len(run[r].employees[e].assigned_shifts) = Cardinality(SlotsOf(r, e)))
  /\ [][\A r \in Runs :
          Iterates(r) =>
            LET A == run'[r].schedule[SlotDay(run[r])][SlotShift(run[r])]
            IN  \A e \in Staff :
                  Len(run'[r].employees[e].assigned_shifts) =
                    Len(run[r].employees[e].assigned_shifts)
                      + (IF employees[e].name \in Range(A) THEN 1 ELSE 0)]_vars

\* an employee with a counter of two, one slot held as a mandatory employee
\* and one through the fill path, next to an employee with a counter of zero
C22_Witness ==
  \E r \in Runs : \E e, f \in Staff :
    /\ run[r].pc = "loop"
    /\ Len(run[r].employees[e].assigned_shifts) = 2
    /\ Len(run[r].employees[f].assigned_shifts) = 0
    /\ \E k \in SlotsOf(r, e) : e \in MarkedMandatory(k[1], k[2])
    /\ \E k \in SlotsOf(r, e) : e \notin MarkedMandatory(k[1], k[2])

(* -------------------------------- C23 --------------------------------- *)

\* sequence a is an initial part of sequence b
IsPrefix(a, b) == Len(a) <= Len(b) /\ a = SubSeq(b, 1, Len(a))

\* C23: no step of a run changes or removes the Assignment of a slot that
\* is already committed, and no step removes or changes a slot recorded in
\* an employee's assigned slots.
C23_NoBacktracking ==
  [][\A r \in Runs :
       run[r].pc \in {"loop", "done"} =>
         /\ \A k \in Committed(r) :
              /\ k \in CommittedIn(run'[r])
              /\ run'[r].schedule[k[1]][k[2]] = Assignment(r, k)
         /\ \A e \in DOMAIN run[r].employees :
              IsPrefix(run[r].employees[e].assigned_shifts,
                       run'[r].employees[e].assigned_shifts)]_vars

\* a finished run of four slots whose first slot holds a name and whose
\* last slot holds the sentinel
C23_Witness ==
  \E r \in Runs :
    /\ run[r].pc = "done" /\ Cardinality(Committed(r)) = 4
    /\ Assignment(r, <<1, shifts_per_day[1]>>) # <<NoAvailable>>
    /\ Assignment(r, <<2, shifts_per_day[2]>>) = <<NoAvailable>>

(* -------------------------------- C24 --------------------------------- *)

\* the slots of the days run r schedules
AllSlots(r) == Range(run[r].days_to_schedule) \X Range(shifts_per_day)

\* some way of staffing fills every slot of run r with the full headcount,
\* nobody in a slot they are unavailable for, nobody in two shifts of a day
FullCoverPossible(r) ==
  \E f \in [AllSlots(r) -> {g \in SUBSET Staff : Cardinality(g) = people_per_shift}] :
    /\ \A k \in AllSlots(r) : f[k] \cap MarkedUnavailable(k[1], k[2]) = {}
    /\ \A k, l \in AllSlots(r) : (k[1] = l[1] /\ k[2] # l[2]) => f[k] \cap f[l] = {}

\* the roster [A, B] with a headcount of one whose only constraint is that
\* B is unavailable for the second shift of day d
StarvationInput(d) ==
  /\ Len(employees) = 2 /\ people_per_shift = 1 /\ Len(shifts_per_day) = 2
  /\ ConstraintCount = 1
  /\ MarkedUnavailable(d, shifts_per_day[2]) = {2}

\* C24: for the roster [A, B], headcount one and B unavailable for the
\* second shift of a day, the run gives the first shift of that day to A
\* and commits the sentinel to the second, although every slot could be
\* filled without breaking unavailability or one-shift-per-day.
C24_GreedyStarvation ==
  \A r \in Runs : \A d \in Range(run[r].days_to_schedule) :
    (StarvationInput(d) /\ run[r].pc = "done")
      => /\ Assignment(r, <<d, shifts_per_day[1]>>) = <<employees[1].name>>
         /\ Assignment(r, <<d, shifts_per_day[2]>>) = <<NoAvailable>>
         /\ FullCoverPossible(r)

\* the run over that input with B unavailable for the Evening of day 1 has
\* returned with the sentinel in that slot
C24_Witness ==
  \E r \in Runs :
    /\ StarvationInput(1) /\ run[r].pc = "done"
    /\ shifts_per_day = <<"Morning", "Evening">>
    /\ Assignment(r, <<1, "Evening">>) = <<NoAvailable>>
    /\ FullCoverPossible(r)

(* -------------------------------- C25 --------------------------------- *)

\* the committed shifts of day d in run r for which employee e is
\* mandatory together with no more employees than the headcount
MandatoryShifts(r, d, e) ==
  {s \in Range(shifts_per_day) :
     /\ <<d, s>> \in Committed(r)
     /\ e \in MarkedMandatory(d, s)
     /\ Cardinality(MarkedMandatory(d, s)) <= people_per_shift}

\* C25: an employee is placed in every committed shift of a day for which
\* they are mandatory (with no more mandatory employees than the
\* headcount), whatever other shifts of that day they already hold, be it
\* as a mandatory employee or through the fill path.
C25_MandatoryIgnoresSameDay ==
  [](\A r \in Runs : \A e \in Staff : \A x \in employees[e].mandatory_dates :
       (x[1].year = year /\ x[1].month = month /\ x[1].day \in DOMAIN run[r].schedule) =>
         MandatoryShifts(r, x[1].day, e) \subseteq ShiftsWorked(r, x[1].day, e))

\* an employee mandatory for both shifts of a day holds both
C25_Witness ==
  \E r \in Runs : \E d \in DOMAIN run[r].schedule : \E e \in Staff :
    /\ Len(shifts_per_day) = 2
    /\ MandatoryShifts(r, d, e) = Range(shifts_per_day)
    /\ ShiftsWorked(r, d, e) = Range(shifts_per_day)

\* an employee who got the first shift of a day through the fill path holds
\* the second shift of that day, for which they are mandatory, as well
C25_FillThenMandatory ==
  \E r \in Runs : \E d \in DOMAIN run[r].schedule : \E e \in Staff :
    /\ Len(shifts_per_day) = 2
    /\ MandatoryShifts(r, d, e) = {shifts_per_day[2]}
    /\ e \notin MarkedMandatory(d, shifts_per_day[1])
    /\ ShiftsWorked(r, d, e) = Range(shifts_per_day)

(* -------------------------------- C26 --------------------------------- *)

\* C26: a run that has entered its loops returns; every iteration commits
\* a slot that was not committed before, and the run returns exactly when
\* every (scheduled day, declared shift) slot is committed, that is after
\* days x shifts commits.
C26_Terminates ==
  /\ \A r \in Runs : (run[r].pc = "loop") ~> (run[r].pc = "done")
  /\ [][\A r \in Runs :
          /\ Iterates(r) =>
               /\ <<SlotDay(run[r]), SlotShift(run[r])>> \notin Committed(r)
               /\ CommittedIn(run'[r]) =
                    Committed(r) \cup {<<SlotDay(run[r]), SlotShift(run[r])>>}
          /\ (run[r].pc = "loop" /\ run'[r].pc = "done") =>
               /\ Committed(r) = AllSlots(r)
               /\ Cardinality(Committed(r)) =
                    Len(run[r].days_to_schedule) * Len(shifts_per_day)]_vars

\* a run over the 28 days of February 2026 has returned with its 28
\* slots committed
C26_Witness ==
  \E r \in Runs :
    /\ run[r].pc = "done" /\ week = None
    /\ Len(run[r].days_to_schedule) = 28
    /\ Cardinality(Committed(r)) = 28


\* C27: a run started by the Generate handler leaves the caller's roster
\* untouched: no step of a run changes the session's roster (its length,
\* its order, or any record's unavailable or mandatory set), an iteration
\* changes nothing of the working records but their assigned sets, and the
\* session's records have empty assigned sets whatever number of runs has
\* been made.
C27_CallerRosterUntouched ==
  /\ [][\A r \in Runs :
          run'[r] # run[r] =>
            /\ employees' = employees
            /\ Iterates(r) =>
                 /\ Len(run'[r].employees) = Len(run[r].employees)
                 /\ \A k \in DOMAIN run[r].employees :
                      run'[r].employees[k] =
                        [run[r].employees[k] EXCEPT
                           !.assigned_shifts = run'[r].employees[k].assigned_shifts]]_vars
  /\ [](\A k \in Staff : employees[k].assigned_shifts = <<>>)

\* the second run has returned, its working copy of a constrained record
\* holds assigned slots, and the session's record holds none
C27_Witness ==
  /\ run[1].pc = "done" /\ run[2].pc = "done" /\ run[2].caller = "Generate"
  /\ \E k \in Staff :
       /\ run[2].employees[k].assigned_shifts # <<>>
       /\ employees[k].unavailable_dates \cup employees[k].mandatory_dates # {}
       /\ employees[k].assigned_shifts = <<>>


(* -------------------------------- C28 --------------------------------- *)

\* the number of names in an Assignment: the sentinel is not a name
NameCount(A) == IF A = <<NoAvailable>> THEN 0 ELSE Len(A)

\* C28: with a headcount N >= 1, a slot with m < N mandatory employees and
\* k eligible fill candidates is committed with exactly min(N, m + k)
\* names, all different; so it holds fewer than N names only when fewer
\* than N - m candidates are eligible, and it holds the sentinel exactly
\* when m = 0 and k = 0.
C28_NamesPerSlot ==
  [][\A r \in Runs :
       Iterates(r) =>
         LET d == SlotDay(run[r])
             s == SlotShift(run[r])
             m == Cardinality(MarkedMandatory(d, s))
             k == Cardinality(Eligible(r, d, s))
             A == run'[r].schedule[d][s]
         IN  (people_per_shift >= 1 /\ m < people_per_shift) =>
               /\ NameCount(A) = Min(people_per_shift, m + k)
               /\ Cardinality(Range(A)) = Len(A)
               /\ NameCount(A) < people_per_shift => k < people_per_shift - m
               /\ A = <<NoAvailable>> <=> (m = 0 /\ k = 0)]_vars

\* a slot with a headcount of two left with its one mandatory employee: the
\* only other employee, not unavailable for it, holds the day's first shift
C28_Witness ==
  \E r \in Runs : \E d \in DOMAIN run[r].schedule :
    /\ people_per_shift = 2 /\ Len(employees) = 2
    /\ {<<d, "Morning">>, <<d, "Evening">>} \subseteq Committed(r)
    /\ MarkedMandatory(d, "Evening") = {1}
    /\ MarkedUnavailable(d, "Evening") = {}
    /\ Assignment(r, <<d, "Evening">>) = <<employees[1].name>>
    /\ 2 \in Placed(r, <<d, "Morning">>)


(* -------------------------------- C29 --------------------------------- *)

\* the (date, shift) pair x matches a slot of the run: its date is one of
\* the days being scheduled and its shift is a declared shift
MatchesSlot(x) ==
  /\ x[1] \in {date(year, month, d) : d \in Range(DaysToSchedule(year, month, week))}
  /\ x[2] \in Range(shifts_per_day)

\* the roster without the entries that match no slot
WithoutOffSlot ==
  [k \in DOMAIN employees |->
     [employees[k] EXCEPT
        !.unavailable_dates = {x \in @ : MatchesSlot(x)},
        !.mandatory_dates = {x \in @ : MatchesSlot(x)}]]

\* the schedule create_schedule returns for roster emps and the other inputs
ScheduleFor(emps) ==
  LET days == DaysToSchedule(year, month, week)
  IN  RunToEnd([pc |-> "loop", caller |-> "create_schedule", raised |-> "none",
                people_per_shift |-> people_per_shift,
                employees |-> WorkingEmployees(emps),
                days_to_schedule |-> days,
                mandatory_assignments |->
                   MandatoryAssignments(emps, days, shifts_per_day, year, month),
                i |-> 1, j |-> 1, schedule |-> <<>>]).schedule

\* C29: the schedule a run returns is the schedule returned for the roster
\* with every mandatory and unavailable pair removed whose date is not a
\* scheduled day or whose shift is not a declared shift.
C29_OffSlotConstraintsIgnored ==
  \A r \in Runs :
    run[r].pc = "done" => run[r].schedule = ScheduleFor(WithoutOffSlot)

\* a run has returned for a roster in which an employee is mandatory for an
\* undeclared shift of a scheduled day, and that employee holds no shift of
\* that day
C29_Witness ==
  \E r \in Runs : \E e \in Staff : \E x \in employees[e].mandatory_dates :
    /\ run[r].pc = "done"
    /\ ~MatchesSlot(x)
    /\ x[1].year = year /\ x[1].month = month
    /\ x[1].day \in DOMAIN run[r].schedule
    /\ ShiftsWorked(r, x[1].day, e) = {}


(* -------------------------------- C30 --------------------------------- *)

\* schedules a and b hold the same Assignment in every slot but slot k
SameButSlot(a, b, k) ==
  LET slots(x) == {q \in (DOMAIN x) \X ShiftNames : q[2] \in DOMAIN x[q[1]]}
  IN  /\ slots(a) \ {k} = slots(b) \ {k}
      /\ \A q \in slots(a) \ {k} : a[q[1]][q[2]] = b[q[1]][q[2]]

\* the schedule shown before an edit, and Update Schedule applied to the
\* session for day d, shift s and selection sel
ShownSchedule == IF edited_schedule # None THEN edited_schedule[1] ELSE current_schedule[1]
AfterUpdate(d, s, sel) == UpdateSchedule(current_schedule, edited_schedule, d, s, sel)

\* what Update Schedule and Reset do to the session's schedules: an update
\* leaves the generated schedule as stored and gives an edited schedule that
\* differs from the one shown in the edited slot alone, which holds the
\* selection, or the sentinel for an empty selection; a second update keeps
\* the generated schedule too; Reset leaves no edited schedule
EditsKeepGenerated ==
  \A d \in 1..monthrange(year, month)[2] : \A s \in Range(shifts_per_day) :
    \A sel \in Selections(employees) :
      LET one == AfterUpdate(d, s, sel)
          two == UpdateSchedule(one.current_schedule, one.edited_schedule, d, s, <<>>)
          back == ResetToGenerated(two.current_schedule, two.edited_schedule)
      IN  /\ one.current_schedule = current_schedule
          /\ SameButSlot(one.edited_schedule[1], ShownSchedule, <<d, s>>)
          /\ one.edited_schedule[1][d][s] = (IF sel = <<>> THEN <<NoAvailable>> ELSE sel)
          /\ two.current_schedule = current_schedule
          /\ two.edited_schedule[1][d][s] = <<NoAvailable>>
          /\ back.current_schedule = current_schedule /\ back.edited_schedule = None

====
